---- MODULE Spec2Model ----
(***************************************************************************)
(* Model of transcript.py: the YouTube key rotator, the two-stage upload   *)
(* detection (videoCount tripwire, latest non-Short resolver), the monitor *)
(* thread's poll loop and the chat handlers that start and stop it.        *)
(*                                                                         *)
(* One chat is modelled.  A monitor thread occupies a slot of Threads; a   *)
(* slot whose thread has exited is reused by the next start_monitoring.    *)
(* A thread step is one blocking call of monitor_channel (a YouTube        *)
(* request sequence, the transcript request, the analysis) together with   *)
(* the code that follows it up to the next such call, the notifications    *)
(* included; the locals of a poll iteration are dropped when the iteration *)
(* ends.  An optional value (Python's None or a value) is the empty    *)
(* sequence or a one-element sequence.                                     *)
(***************************************************************************)
EXTENDS Integers, Sequences, FiniteSets, TLC

VARIABLES
    keys,          \* YT_KEYS._keys: the configured key strings
    rot_index,     \* YT_KEYS._index (0-based)
    exhausted,     \* YT_KEYS._exhausted: indices of keys marked exhausted
    quota403,      \* environment: key strings YouTube answers with HTTP 403
    uploads,       \* environment: the channel's uploads, most recent first
    next_id,       \* environment: identifier of the next upload
    user_market,   \* user_state[chat]["market_key"], None when no state
    mode,          \* user_state[chat]["mode"]
    cur_event,     \* user_state[chat]["stop_event"]: the slot whose event it is, 0 when absent
    stop_pc,       \* position of the /stop handler
    reply,         \* /stop's answer when /stop was the last command handled, else "none"
    pc,            \* per slot: position of the monitor thread
    market_arg,    \* per slot: monitor_channel's market_key argument
    stop_event,    \* per slot: the thread's threading.Event
    last_count,    \* per slot: baseline upload count
    last_vid_id,   \* per slot: baseline video identifier
    new_count,     \* per slot: count fetched by the current poll
    diff,          \* per slot: increase computed by the current poll
    vid_id,        \* per slot: identifier the resolver returned last
    poll_count,    \* per slot: number of polls started
    out,           \* per slot: log lines and messages of the thread's latest step
    alerted,       \* per slot (history): a count-failure alert was delivered while every key was over quota
    no_upload,     \* per slot (history): no upload since the session's latest successful count fetch
                   \* or, before its first one, since its start
    retry,         \* per slot (history): the "will retry" notice the session delivered last, kept
                   \* until the iteration of the next poll that gets a count ends
    analysed,      \* per slot (history, kept under SpecOnce): the session has called
                   \* format_results
    lock,          \* YT_KEYS._lock: the caller that holds it, "free" when released
    rot_pc,        \* per caller: the rotator operation it is inside
    latest,        \* the answer of a get_latest_video call made on its own, None before it
    returned,      \* the latest call of a rotator method made on its own: the method, its
                   \* argument or answer, and _index and _exhausted as the call found them
    handed,        \* (history) the keys the latest next_key calls returned one after another
                   \* with no key exhausted, at most one round of them
    marked,        \* (history) the key strings passed to mark_exhausted since the latest reset
    calls,         \* number of rotator methods called on their own
    trade          \* a format_results call made on its own: its arguments, the settings and
                   \* the market's answer it ran with, and what it did; None before it

rotator == <<keys, rot_index, exhausted>>
environment == <<quota403, uploads, next_id>>
chat == <<user_market, mode, cur_event, stop_pc, reply>>
locals == <<last_count, last_vid_id, new_count, diff, vid_id, poll_count>>
threads == <<pc, market_arg, stop_event, locals, out, alerted, no_upload, retry, analysed>>
api == <<returned, handed, marked, calls>>
standalone == <<lock, rot_pc, latest, api, trade>>
vars == <<rotator, standalone, environment, chat, threads>>

-----------------------------------------------------------------------------
(* Bounds of the model *)
MaxThreads == 2        \* monitor thread slots of the chat
HeartbeatPolls == 10   \* polls of one session under Spec
MaxUploads == 2        \* uploads during a run of Spec and SpecQuota
MaxPolls == 2          \* polls of one session under SpecQuota
ChatPolls == 1         \* polls of one session under SpecChat
ChatUploads == 1       \* uploads during a run of SpecChat
ResolverUploads == 3   \* uploads of the channel under SpecResolver
MaxKeys == 3           \* comma-separated entries of YOUTUBE_API_KEY under SpecKeys
MaxCalls == 6          \* rotator methods called during a run of SpecKeys
OncePolls == 3         \* polls of one session under SpecOnce

(* Program constants *)
HeartbeatEvery == 10   \* poll_count % 10
ShortMaxSecs == 60     \* secs <= 60
UnknownSecs == 999     \* durations.get(vid_id, 999)
MaxResults == 8        \* playlistItems maxResults
CertainPrice == 95     \* p < 0.95, prices in hundredths

None == <<>>
Some(x) == <<x>>

Threads == 1..MaxThreads
\* The threads that use YT_KEYS: the monitor threads, the bot's handler thread
\* and the reset timer
Callers == {"monitor1", "monitor2", "handler", "reset_timer"}
OneKey == <<"k1">>
TwoKeys == <<"k1", "k2">>
Markets == {"mrbeast"}
\* YOUTUBE_API_KEY split at its commas, each entry stripped; "" is an entry
\* that was empty or blank
KeyNames == {"k1", "k2", "k3"}
KeyEnvs == UNION {[1..n -> KeyNames \cup {""}] : n \in 0..MaxKeys}

\* A contentDetails.duration string by its ISO 8601 components: "P", the days
\* ("<n>D") when present, the "T" designator when present and the hours,
\* minutes and seconds ("<n>H", "<n>M", "<n>S") that are present.
Duration(d, t, h, m, sec) == [days |-> d, t |-> t, h |-> h, m |-> m, s |-> sec]
PT30S == Duration(None, TRUE, None, None, Some(30))
PT1M == Duration(None, TRUE, None, Some(1), None)
PT1M1S == Duration(None, TRUE, None, Some(1), Some(1))
P0D == Duration(Some(0), FALSE, None, None, None)      \* no time component
P1DT1S == Duration(Some(1), TRUE, None, None, Some(1))   \* longer than a day

\* An upload is its identifier and the duration videos.list reports for it,
\* None while videos.list has no item for the identifier.
UploadDurations == {Some(PT30S), Some(PT1M1S)}
ResolverDurations == {None, Some(P0D), Some(PT30S), Some(PT1M), Some(PT1M1S), Some(P1DT1S)}
InitialUploads == <<[id |-> 0, dur |-> Some(PT1M1S)]>>
\* The channels SpecResolver starts from, most recent upload first
ResolverInputs ==
    UNION {{[i \in 1..n |-> [id |-> n - i, dur |-> f[i]]] : f \in [1..n -> ResolverDurations]}
           : n \in 0..ResolverUploads}

Logs == {"log_count_failed", "log_count", "log_no_new_video", "log_count_jumped",
         "log_latest_none", "log_same_video", "log_new_video", "log_not_ready",
         "log_transcript_ok", "log_done", "log_stop_received", "log_exited",
         "log_transcript_error"}

Has(o, e) == \E i \in 1..Len(o) : o[i] = e
Messages(o) == {o[i] : i \in 1..Len(o)} \ Logs
Min(a, b) == IF a <= b THEN a ELSE b

-----------------------------------------------------------------------------
(* YouTubeKeyRotator *)

\* __init__: the entries of the environment variable that are not empty
ParseKeys(entries) == SelectSeq(entries, LAMBDA k : k # "")

Available(ks, exh) == Len(ks) > 0 /\ Cardinality(exh) < Len(ks)

\* self._index not in self._exhausted
EligibleAlways(i, exh) == TRUE
Eligible(i, exh) == i \notin exh

\* (self._index + 1) % len(self._keys)
AdvanceStay(i, n) == i
Advance(i, n) == (i + 1) % n

RECURSIVE NextKeyScan(_, _, _, _)
NextKeyScan(ks, i, start, exh) ==
    IF Eligible(i, exh)
    THEN [key |-> Some(ks[i + 1]), index |-> Advance(i, Len(ks))]
    ELSE LET j == Advance(i, Len(ks))
         IN IF j = start THEN [key |-> None, index |-> j]
            ELSE NextKeyScan(ks, j, start, exh)

NextKey(ks, i, exh) ==
    IF Len(ks) = 0 THEN [key |-> None, index |-> i]
    ELSE NextKeyScan(ks, i, i, exh)

MarkExhausted(ks, key, exh) ==
    IF \E i \in 1..Len(ks) : ks[i] = key
    THEN exh \cup {(CHOOSE i \in 1..Len(ks) : ks[i] = key /\ \A j \in 1..(i - 1) : ks[j] # key) - 1}
    ELSE exh

ResetExhaustedNoop(exh) == exh
ResetExhausted(exh) == {}

-----------------------------------------------------------------------------
(* _yt_get: the results one call can have, each with the rotator state it  *)
(* leaves.  A key in q403 is answered 403; any other key is answered with  *)
(* a success, a 400, a failed status (raise_for_status) or no answer.      *)

YtResult(ok, i, exh) == [ok |-> ok, index |-> i, exhausted |-> exh]

\* The 403 branch: the log line is evaluated first and names self, which no
\* module-level function has; the NameError is caught by the handler of
\* Exception, which returns None.  mark_exhausted and the retry are not reached.
On403(ks, tried, key, i, exh, q403) == {YtResult(FALSE, i, exh)}

RECURSIVE YtLoop(_, _, _, _, _)
YtLoop(ks, tried, i, exh, q403) ==
    IF tried >= Len(ks) THEN {YtResult(FALSE, i, exh)}
    ELSE LET nk == NextKey(ks, i, exh)
         IN IF nk.key = None THEN {YtResult(FALSE, nk.index, exh)}
            ELSE IF nk.key[1] \in q403
                 THEN On403(ks, tried, nk.key[1], nk.index, exh, q403)
                 ELSE {YtResult(TRUE, nk.index, exh)}          \* 200
                      \cup {YtResult(FALSE, nk.index, exh)}    \* 400, or a request exception
                      \cup YtLoop(ks, tried + 1, nk.index, exh, q403)  \* HTTPError

YtGet(ks, i, exh, q403) ==
    IF ~Available(ks, exh) THEN {YtResult(FALSE, i, exh)}
    ELSE YtLoop(ks, 0, i, exh, q403)

-----------------------------------------------------------------------------
(* get_video_count and get_latest_video *)

GetVideoCount(ks, i, exh, q403, ups) ==
    IF ~Available(ks, exh) THEN {[count |-> None, index |-> i, exhausted |-> exh]}
    ELSE UNION {
        IF r.ok
        THEN {[count |-> Some(Len(ups)), index |-> r.index, exhausted |-> r.exhausted],
              [count |-> None, index |-> r.index, exhausted |-> r.exhausted]}  \* 0 items, bad body
        ELSE {[count |-> None, index |-> r.index, exhausted |-> r.exhausted]}
        : r \in YtGet(ks, i, exh, q403)}

\* parse_iso8601_duration: the pattern is matched at the start of the string,
\* so a string that does not begin with "PT" gives 0
OptInt(x) == IF x = None THEN 0 ELSE x[1]
ParseIso8601Duration(d) ==
    IF d.days # None \/ ~d.t THEN 0
    ELSE OptInt(d.h) * 3600 + OptInt(d.m) * 60 + OptInt(d.s)

IsShort(secs) == secs <= ShortMaxSecs

\* secs = durations.get(vid_id, 999)
SecsOf(v, durs) == IF v \in DOMAIN durs THEN durs[v] ELSE UnknownSecs

\* The first candidate that is not a Short; durs maps the identifiers the
\* videos.list answer holds to their seconds.
RECURSIVE LastNonShort(_, _)
LastNonShort(cands, durs) ==
    IF cands = <<>> THEN None
    ELSE LET rest == LastNonShort(Tail(cands), durs)
         IN IF rest # None THEN rest
            ELSE IF ~IsShort(SecsOf(cands[1], durs)) THEN Some(cands[1]) ELSE None

RECURSIVE FirstNonShort(_, _)
FirstNonShort(cands, durs) ==
    IF cands = <<>> THEN None
    ELSE IF ~IsShort(SecsOf(cands[1], durs)) THEN Some(cands[1])
         ELSE FirstNonShort(Tail(cands), durs)

Candidates(ups) == [i \in 1..Min(MaxResults, Len(ups)) |-> ups[i].id]
\* The durations dict built from the videos.list answer for the candidates
Durations(ups) ==
    LET listed == {i \in 1..Min(MaxResults, Len(ups)) : ups[i].dur # None}
    IN [v \in {ups[i].id : i \in listed} |->
           ParseIso8601Duration((CHOOSE u \in {ups[i] : i \in listed} : u.id = v).dur[1])]
NoDurations == [v \in {} |-> 0]

\* One answer of get_latest_video with the rotator state it leaves; listed
\* tells that the candidates were fetched and durs is the durations dict.
Latest(v, listed, durs, i, exh) ==
    [vid |-> v, listed |-> listed, durs |-> durs, index |-> i, exhausted |-> exh]

GetLatestVideo(ks, i, exh, q403, ups) ==
    IF ~Available(ks, exh) THEN {Latest(None, FALSE, NoDurations, i, exh)}
    ELSE UNION {
        IF ~r.ok \/ Len(ups) = 0
        THEN {Latest(None, FALSE, NoDurations, r.index, r.exhausted)}
        ELSE {Latest(None, FALSE, NoDurations, r.index, r.exhausted)}   \* bad body
             \cup {LET durs == IF r2.ok THEN Durations(ups) ELSE NoDurations
                   IN Latest(FirstNonShort(Candidates(ups), durs), TRUE, durs,
                             r2.index, r2.exhausted)
                   : r2 \in YtGet(ks, r.index, r.exhausted, q403)}
        : r \in YtGet(ks, i, exh, q403)}

\* fetch_transcript: the text, or None for an empty transcript, a failed
\* request or a missing API_TOKEN.
TranscriptResponses == {"text", "empty", "error", "no_token"}
FetchTranscript(resp) == IF resp = "text" THEN Some("text") ELSE None
\* print("Transcript fetch error") in the handler of the request's exception
FetchTranscriptLog(resp) == IF resp = "error" THEN <<"log_transcript_error">> ELSE <<>>

-----------------------------------------------------------------------------
Init(ks, ups) ==
    /\ keys = ks
    /\ rot_index = 0
    /\ exhausted = {}
    /\ quota403 = {}
    /\ uploads = ups
    /\ next_id = Len(ups)
    /\ user_market = None
    /\ mode = "none"
    /\ cur_event = 0
    /\ stop_pc = "idle"
    /\ reply = "none"
    /\ pc = [t \in Threads |-> "idle"]
    /\ market_arg = [t \in Threads |-> None]
    /\ stop_event = [t \in Threads |-> FALSE]
    /\ last_count = [t \in Threads |-> None]
    /\ last_vid_id = [t \in Threads |-> None]
    /\ new_count = [t \in Threads |-> None]
    /\ diff = [t \in Threads |-> None]
    /\ vid_id = [t \in Threads |-> None]
    /\ poll_count = [t \in Threads |-> 0]
    /\ out = [t \in Threads |-> <<>>]
    /\ alerted = [t \in Threads |-> FALSE]
    /\ no_upload = [t \in Threads |-> FALSE]
    /\ retry = [t \in Threads |-> None]
    /\ analysed = [t \in Threads |-> FALSE]
    /\ lock = "free"
    /\ rot_pc = [c \in Callers |-> [op |-> "idle", locked |-> FALSE]]
    /\ latest = None
    /\ returned = None
    /\ handed = <<>>
    /\ marked = {}
    /\ calls = 0
    /\ trade = None

-----------------------------------------------------------------------------
(* Environment: the channel and YouTube's per-key quota *)

UploadVideo(dur, maxUploads) ==
    /\ next_id <= maxUploads
    /\ uploads' = <<[id |-> next_id, dur |-> dur]>> \o uploads
    /\ next_id' = next_id + 1
    /\ no_upload' = [t \in Threads |-> FALSE]
    /\ UNCHANGED <<quota403, rotator, standalone, chat,
                   pc, market_arg, stop_event, locals, out, alerted, retry, analysed>>

DeleteVideo ==
    /\ Len(uploads) > 0
    /\ uploads' = Tail(uploads)
    /\ UNCHANGED <<quota403, next_id, rotator, standalone, chat, threads>>

QuotaExceeded(k) ==
    /\ k \notin quota403
    /\ quota403' = quota403 \cup {k}
    /\ UNCHANGED <<uploads, next_id, rotator, standalone, chat, threads>>

QuotaRefresh ==
    /\ quota403 # {}
    /\ quota403' = {}
    /\ alerted' = [t \in Threads |-> FALSE]
    /\ UNCHANGED <<uploads, next_id, rotator, standalone, chat,
                   pc, market_arg, stop_event, locals, out, no_upload, retry, analysed>>

\* _midnight_reset_loop: YT_KEYS.reset_exhausted() once a day
MidnightReset ==
    /\ exhausted' = ResetExhausted(exhausted)
    /\ UNCHANGED <<keys, standalone, rot_index, environment, chat, threads>>

-----------------------------------------------------------------------------
(* Chat handlers *)

Running(t) == pc[t] \notin {"idle", "exited"}

\* stop_monitoring: the stop event user_state holds, with that event set
StopMonitoring(ev) == IF cur_event # 0 THEN [ev EXCEPT ![cur_event] = TRUE] ELSE ev

\* handle_callback, data = "market_<mk>": user_state[chat_id] is replaced
SelectMarket(mk) ==
    /\ stop_pc = "idle"
    /\ user_market' = Some(mk)
    /\ mode' = "ask_monitor"
    /\ cur_event' = 0
    /\ reply' = "none"
    /\ UNCHANGED <<stop_pc, rotator, standalone, environment, threads>>

\* start_monitoring, the new thread taking the lowest free slot of ts
StartMonitoring(ts) ==
    \E t \in ts :
        /\ ~Running(t)
        /\ \A u \in ts : u < t => Running(u)
        /\ stop_event' = [StopMonitoring(stop_event) EXCEPT ![t] = FALSE]
        /\ cur_event' = t
        /\ mode' = "monitoring"
        /\ pc' = [pc EXCEPT ![t] = "start"]
        /\ market_arg' = [market_arg EXCEPT ![t] = user_market]
        /\ last_count' = [last_count EXCEPT ![t] = None]
        /\ last_vid_id' = [last_vid_id EXCEPT ![t] = None]
        /\ new_count' = [new_count EXCEPT ![t] = None]
        /\ diff' = [diff EXCEPT ![t] = None]
        /\ vid_id' = [vid_id EXCEPT ![t] = None]
        /\ poll_count' = [poll_count EXCEPT ![t] = 0]
        /\ out' = [out EXCEPT ![t] = <<>>]
        /\ alerted' = [alerted EXCEPT ![t] = FALSE]
        /\ no_upload' = [no_upload EXCEPT ![t] = TRUE]
        /\ retry' = [retry EXCEPT ![t] = None]
        /\ analysed' = [analysed EXCEPT ![t] = FALSE]

\* handle_callback, data = "monitor_yes".  The Yes and No buttons are those of
\* the latest question, whose keyboard the answer removes.
MonitorYes(ts) ==
    /\ stop_pc = "idle"
    /\ mode = "ask_monitor"
    /\ IF user_market = None
       THEN /\ reply' = "none"
            /\ UNCHANGED <<mode, cur_event, threads>>
       ELSE IF ~Available(keys, exhausted)
       THEN /\ reply' = "none"
            /\ UNCHANGED <<mode, cur_event, threads>>
       ELSE /\ StartMonitoring(ts)
            /\ reply' = "none"
    /\ UNCHANGED <<user_market, stop_pc, rotator, standalone, environment>>

\* handle_callback, data = "monitor_no"
MonitorNo ==
    /\ stop_pc = "idle"
    /\ mode = "ask_monitor"
    /\ mode' = IF user_market # None THEN "awaiting_link" ELSE mode
    /\ reply' = "none"
    /\ UNCHANGED <<user_market, cur_event, stop_pc,
                   rotator, standalone, environment, threads>>

\* cmd_stop up to the return of stop_monitoring
CmdStop ==
    /\ stop_pc = "idle"
    /\ IF mode = "monitoring"
       THEN /\ stop_event' = StopMonitoring(stop_event)
            /\ cur_event' = 0
            /\ stop_pc' = "set_mode"
            /\ UNCHANGED reply
       ELSE /\ reply' = "no_active_monitor"
            /\ UNCHANGED <<stop_event, cur_event, stop_pc>>
    /\ UNCHANGED <<user_market, mode, rotator, standalone, environment,
                   pc, market_arg, locals, out, alerted, no_upload, retry, analysed>>

\* cmd_stop from state["mode"] = "awaiting_link" on
CmdStopSetMode ==
    /\ stop_pc = "set_mode"
    /\ mode' = "awaiting_link"
    /\ reply' = "stopped"
    /\ stop_pc' = "idle"
    /\ UNCHANGED <<user_market, cur_event, rotator,
                   standalone, environment, threads>>

-----------------------------------------------------------------------------
(* monitor_channel *)

\* bot.send_message inside the poll loop's try: every message delivered, or
\* the first failing one raises and the handler of the poll's exception
\* tries to send the error notice.  Log lines do not fail.
TrySend(ms) ==
    {[ok |-> TRUE, out |-> ms]}
    \cup {[ok |-> FALSE, out |-> SubSeq(ms, 1, i - 1) \o e]
          : i \in {j \in 1..Len(ms) : ms[j] \notin Logs},
            e \in {<<"msg_poll_error">>, <<>>}}

\* bot.send_message outside the poll loop: a failure reaches the handler of
\* the fatal exception, which tries to send the crash notice.
SendOrCrash(ms) ==
    {[ok |-> TRUE, out |-> ms]}
    \cup {[ok |-> FALSE, out |-> e] : e \in {<<"msg_crashed">>, <<>>}}

\* The thread of slot t moves to p with the given locals and output.
Step(t, p, lc, lv, nc, df, v, o) ==
    /\ pc' = [pc EXCEPT ![t] = p]
    /\ last_count' = [last_count EXCEPT ![t] = lc]
    /\ last_vid_id' = [last_vid_id EXCEPT ![t] = lv]
    /\ new_count' = [new_count EXCEPT ![t] = nc]
    /\ diff' = [diff EXCEPT ![t] = df]
    /\ vid_id' = [vid_id EXCEPT ![t] = v]
    /\ out' = [out EXCEPT ![t] = o]

\* The thread of slot t returns: its locals are gone.
Exit(t, o) == Step(t, "exited", None, None, None, None, None, o)

\* if poll_count % 10 == 0
IsHeartbeatPollFive(p) == p % 5 = 0
IsHeartbeatPoll(p) == p % HeartbeatEvery = 0

\* if last_count is not None and new_count <= last_count
NoNewVideoOnEqual(lc, nc) == lc # None /\ nc[1] = lc[1]
NoNewVideo(lc, nc) == lc # None /\ nc[1] <= lc[1]

\* diff = (new_count - last_count) if last_count else 1
Diff(lc, nc) == IF lc # None /\ lc[1] # 0 THEN nc[1] - lc[1] ELSE 1

\* last_count = new_count
DetectedCountKept(lc, nc) == lc
DetectedCount(lc, nc) == nc

\* last_vid_id = vid_id
ConfirmedVidKept(lv, v) == lv
ConfirmedVid(lv, v) == v

\* break, after the auto-stop
AfterAutoStopContinues == "sleep"
AfterAutoStop == "final"

\* if vid_id == last_vid_id
SameAsBaselineNever(v, lv) == FALSE
SameAsBaseline(v, lv) == v = lv

\* last_vid_id = None, in the transcript-not-ready branch
NotReadyVidKept(lv) == lv
NotReadyVid(lv) == None

\* A delivered notice that announces a retry, with the video it is about (None
\* when the resolver gave none) and the count the poll had fetched
Promise(notice, v, nc) == [notice |-> notice, vid |-> v, count |-> nc[1]]

\* last_count = new_count - diff
NotReadyCountKept(nc, df) == nc
NotReadyCount(nc, df) == Some(nc[1] - df[1])

\* except Exception inside the loop: the error notice is tried, then the
\* while loop goes on with the next wait
AfterPollExceptionExits == "exited"
AfterPollException == "sleep"

\* stop_event.is_set()
StopRequestedNever(ev) == FALSE
StopRequested(ev) == ev

\* The sanity check
MonStart(t) ==
    /\ pc[t] = "start"
    /\ IF ~Available(keys, exhausted)
       THEN \E s \in SendOrCrash(<<"msg_no_keys">>) :
                Exit(t, s.out)
       ELSE Step(t, "seed_count", last_count[t], last_vid_id[t], None, None, None, <<>>)
    /\ UNCHANGED <<rotator, standalone, environment, chat,
                   market_arg, stop_event, poll_count, alerted, no_upload, retry, analysed>>

\* seed_count = get_video_count(channel_id)
SeedCount(t) ==
    /\ pc[t] = "seed_count"
    /\ \E r \in GetVideoCount(keys, rot_index, exhausted, quota403, uploads) :
        /\ rot_index' = r.index
        /\ exhausted' = r.exhausted
        /\ Step(t, "seed_vid", r.count, last_vid_id[t], None, None, None, <<>>)
        /\ no_upload' = [no_upload EXCEPT ![t] = no_upload[t] \/ r.count # None]
    /\ UNCHANGED <<keys, standalone, environment, chat,
                   market_arg, stop_event, poll_count, alerted, retry, analysed>>

\* seed_vid = get_latest_video(channel_id), then the "Monitoring started" message
SeedVid(t) ==
    /\ pc[t] = "seed_vid"
    /\ \E r \in GetLatestVideo(keys, rot_index, exhausted, quota403, uploads),
          s \in SendOrCrash(<<"msg_monitoring_started">>) :
        /\ rot_index' = r.index
        /\ exhausted' = r.exhausted
        /\ IF s.ok THEN Step(t, "sleep", last_count[t], r.vid, None, None, None, s.out)
           ELSE Exit(t, s.out)
    /\ UNCHANGED <<keys, standalone, environment, chat,
                   market_arg, stop_event, poll_count, alerted, no_upload, retry, analysed>>

\* stop_event.wait(POLL_INTERVAL) and the two tests of the event around it
Wake(t, maxPolls) ==
    /\ pc[t] = "sleep"
    /\ IF StopRequested(stop_event[t])
       THEN /\ Step(t, "final", last_count[t], last_vid_id[t], None, None, None,
                    <<"log_stop_received">>)
            /\ UNCHANGED poll_count
       ELSE /\ poll_count[t] < maxPolls
            /\ poll_count' = [poll_count EXCEPT ![t] = poll_count[t] + 1]
            /\ Step(t, "poll_fetch", last_count[t], last_vid_id[t], None, None, None, <<>>)
    /\ UNCHANGED <<rotator, standalone, environment, chat,
                   market_arg, stop_event, alerted, no_upload, retry, analysed>>

PollFailedResets(t) ==
    \E s \in TrySend(<<"log_count_failed", "msg_count_failed">>) :
        /\ Step(t, "sleep", None, last_vid_id[t], None, None, None, s.out)
        /\ UNCHANGED <<alerted, no_upload, retry>>

\* new_count is None: the alert, then continue
PollFailed(t) ==
    \E s \in TrySend(<<"log_count_failed", "msg_count_failed">>) :
        /\ Step(t, "sleep", last_count[t], last_vid_id[t], None, None, None, s.out)
        /\ alerted' = [alerted EXCEPT ![t] =
                          alerted[t] \/ (s.ok /\ quota403 = {keys[i] : i \in 1..Len(keys)})]
        /\ UNCHANGED <<no_upload, retry>>

\* new_count is a count: the heartbeat, the comparison with the baseline and,
\* on an increase, the new baseline count and the "New upload detected" message
PollCounted(t, nc) ==
    LET hb == IF IsHeartbeatPoll(poll_count[t]) THEN <<"msg_heartbeat">> ELSE <<>>
    IN /\ alerted' = [alerted EXCEPT ![t] = FALSE]
       /\ no_upload' = [no_upload EXCEPT ![t] = TRUE]
       /\ IF NoNewVideo(last_count[t], nc)
          THEN \E s \in TrySend(<<"log_count">> \o hb \o <<"log_no_new_video">>) :
                   Step(t, "sleep", last_count[t], last_vid_id[t], None, None, None, s.out)
          ELSE \E s \in TrySend(<<"log_count">> \o hb \o <<"log_count_jumped", "msg_new_upload">>) :
                   LET jumped == Has(s.out, "log_count_jumped")
                   IN Step(t, IF s.ok THEN "resolve" ELSE AfterPollException,
                           IF jumped THEN DetectedCount(last_count[t], nc) ELSE last_count[t],
                           last_vid_id[t],
                           IF s.ok THEN nc ELSE None,
                           IF s.ok THEN Some(Diff(last_count[t], nc)) ELSE None,
                           None, s.out)
       /\ retry' = [retry EXCEPT ![t] = IF pc'[t] = "resolve" THEN retry[t] ELSE None]

\* One poll up to the resolver call: new_count = get_video_count(channel_id)
PollCount(t) ==
    /\ pc[t] = "poll_fetch"
    /\ \E r \in GetVideoCount(keys, rot_index, exhausted, quota403, uploads) :
        /\ rot_index' = r.index
        /\ exhausted' = r.exhausted
        /\ IF r.count = None THEN PollFailed(t) ELSE PollCounted(t, r.count)
    /\ UNCHANGED <<keys, standalone, environment,
                   chat, market_arg, stop_event, poll_count, analysed>>

\* latest = get_latest_video(channel_id) and the three branches on its result
Resolve(t) ==
    /\ pc[t] = "resolve"
    /\ \E r \in GetLatestVideo(keys, rot_index, exhausted, quota403, uploads) :
        /\ rot_index' = r.index
        /\ exhausted' = r.exhausted
        /\ IF r.vid = None
           THEN \E s \in TrySend(<<"log_latest_none", "msg_fetch_details_failed">>) :
                    /\ Step(t, "sleep", last_count[t], last_vid_id[t], None, None, None, s.out)
                    /\ retry' = [retry EXCEPT ![t] =
                                     IF s.ok THEN Some(Promise("msg_fetch_details_failed", None, new_count[t]))
                                     ELSE None]
           ELSE IF SameAsBaseline(r.vid, last_vid_id[t])
           THEN \E s \in TrySend(<<"log_same_video", "msg_same_video">>) :
                    /\ Step(t, "sleep", last_count[t], last_vid_id[t], None, None, r.vid, s.out)
                    /\ retry' = [retry EXCEPT ![t] = None]
           ELSE \E s \in TrySend(<<"log_new_video", "msg_new_video">>) :
                    /\ Step(t, IF s.ok THEN "transcribe" ELSE AfterPollException, last_count[t],
                            ConfirmedVid(last_vid_id[t], r.vid),
                            IF s.ok THEN new_count[t] ELSE None,
                            IF s.ok THEN diff[t] ELSE None, r.vid, s.out)
                    /\ retry' = [retry EXCEPT ![t] = IF s.ok THEN retry[t] ELSE None]
    /\ UNCHANGED <<keys, standalone, environment, chat,
                   market_arg, stop_event, poll_count, alerted, no_upload, analysed>>

\* not transcript: the notice, then the two resets, then continue
TranscriptNotReady(t, resp) ==
    \E s \in TrySend(FetchTranscriptLog(resp) \o <<"log_not_ready", "msg_not_ready">>) :
        /\ Step(t, "sleep",
                IF s.ok THEN NotReadyCount(new_count[t], diff[t]) ELSE last_count[t],
                IF s.ok THEN NotReadyVid(last_vid_id[t]) ELSE last_vid_id[t],
                None, None, None, s.out)
        /\ retry' = [retry EXCEPT ![t] =
                         IF s.ok THEN Some(Promise("msg_not_ready", vid_id[t], new_count[t]))
                         ELSE None]

\* transcript = fetch_transcript(vid_id) and the branch on its result
Transcribe(t) ==
    /\ pc[t] = "transcribe"
    /\ \E resp \in TranscriptResponses :
        IF FetchTranscript(resp) = None
        THEN TranscriptNotReady(t, resp)
        ELSE \E s \in TrySend(<<"log_transcript_ok", "msg_transcript_ready">>) :
                 /\ Step(t, IF s.ok THEN "analyse" ELSE AfterPollException, last_count[t], last_vid_id[t],
                         IF s.ok THEN new_count[t] ELSE None,
                         IF s.ok THEN diff[t] ELSE None,
                         IF s.ok THEN vid_id[t] ELSE None, s.out)
                 /\ retry' = [retry EXCEPT ![t] = None]
    /\ UNCHANGED <<rotator, standalone, environment, chat,
                   market_arg, stop_event, poll_count, alerted, no_upload, analysed>>

\* result = format_results(transcript, market_key), the result message and
\* the auto-stop
AnalyseStep(t) ==
    /\ pc[t] = "analyse"
    /\ \/ \E e \in {<<"msg_poll_error">>, <<>>} :       \* format_results raises
            /\ Step(t, AfterPollException, last_count[t], last_vid_id[t], None, None, None, e)
            /\ UNCHANGED <<mode, stop_event>>
       \/ \E s \in TrySend(<<"msg_result", "log_done", "msg_auto_stopped">>) :
            /\ Step(t, IF s.ok THEN AfterAutoStop ELSE AfterPollException,
                    last_count[t], last_vid_id[t], None, None, None, s.out)
            /\ mode' = IF s.ok /\ user_market # None THEN "awaiting_link" ELSE mode
            /\ stop_event' = IF s.ok THEN [stop_event EXCEPT ![t] = TRUE] ELSE stop_event
    /\ UNCHANGED <<rotator, standalone, environment, user_market, cur_event,
                   stop_pc, reply, market_arg, poll_count, alerted, no_upload, retry>>

Analyse(t) == AnalyseStep(t) /\ UNCHANGED analysed

\* The same step with the call of format_results recorded
AnalyseRecorded(t) == AnalyseStep(t) /\ analysed' = [analysed EXCEPT ![t] = TRUE]

\* After the loop: the "Monitoring stopped" message unless the session auto-stopped
Final(t) ==
    /\ pc[t] = "final"
    /\ IF ~stop_event[t] \/ mode # "awaiting_link"
       THEN \E s \in SendOrCrash(<<"msg_monitoring_stopped", "log_exited">>) :
                Exit(t, s.out)
       ELSE Exit(t, <<"log_exited">>)
    /\ poll_count' = [poll_count EXCEPT ![t] = 0]
    /\ alerted' = [alerted EXCEPT ![t] = FALSE]
    /\ no_upload' = [no_upload EXCEPT ![t] = FALSE]
    /\ retry' = [retry EXCEPT ![t] = None]
    /\ analysed' = [analysed EXCEPT ![t] = FALSE]
    /\ UNCHANGED <<rotator, standalone, environment,
                   chat, market_arg, stop_event>>

-----------------------------------------------------------------------------
(* One session slot, long enough to reach the heartbeat poll *)
Next ==
    \/ \E dur \in UploadDurations : UploadVideo(dur, MaxUploads)
    \/ DeleteVideo
    \/ MidnightReset
    \/ \E mk \in Markets : SelectMarket(mk)
    \/ MonitorYes({1})
    \/ MonitorNo
    \/ CmdStop
    \/ CmdStopSetMode
    \/ MonStart(1)
    \/ SeedCount(1)
    \/ SeedVid(1)
    \/ Wake(1, HeartbeatPolls)
    \/ PollCount(1)
    \/ Resolve(1)
    \/ Transcribe(1)
    \/ Analyse(1)
    \/ Final(1)

Spec == Init(OneKey, InitialUploads) /\ [][Next]_vars

(* One session slot, with the calls of format_results recorded *)
NextOnce ==
    \/ \E dur \in UploadDurations : UploadVideo(dur, MaxUploads)
    \/ DeleteVideo
    \/ MidnightReset
    \/ \E mk \in Markets : SelectMarket(mk)
    \/ MonitorYes({1})
    \/ MonitorNo
    \/ CmdStop
    \/ CmdStopSetMode
    \/ MonStart(1)
    \/ SeedCount(1)
    \/ SeedVid(1)
    \/ Wake(1, OncePolls)
    \/ PollCount(1)
    \/ Resolve(1)
    \/ Transcribe(1)
    \/ AnalyseRecorded(1)
    \/ Final(1)

SpecOnce == Init(OneKey, InitialUploads) /\ [][NextOnce]_vars

(* One session slot, two keys and YouTube's quota *)
NextQuota ==
    \/ \E dur \in UploadDurations : UploadVideo(dur, MaxUploads)
    \/ \E k \in {keys[i] : i \in 1..Len(keys)} : QuotaExceeded(k)
    \/ QuotaRefresh
    \/ MidnightReset
    \/ \E mk \in Markets : SelectMarket(mk)
    \/ MonitorYes({1})
    \/ MonitorNo
    \/ CmdStop
    \/ CmdStopSetMode
    \/ MonStart(1)
    \/ SeedCount(1)
    \/ SeedVid(1)
    \/ Wake(1, MaxPolls)
    \/ PollCount(1)
    \/ Resolve(1)
    \/ Transcribe(1)
    \/ Analyse(1)
    \/ Final(1)

SpecQuota == Init(TwoKeys, InitialUploads) /\ [][NextQuota]_vars

(* Every slot of the chat *)
NextChat ==
    \/ \E dur \in UploadDurations : UploadVideo(dur, ChatUploads)
    \/ \E mk \in Markets : SelectMarket(mk)
    \/ MonitorYes(Threads)
    \/ MonitorNo
    \/ CmdStop
    \/ CmdStopSetMode
    \/ \E t \in Threads :
        \/ MonStart(t)
        \/ SeedCount(t)
        \/ SeedVid(t)
        \/ Wake(t, ChatPolls)
        \/ PollCount(t)
        \/ Resolve(t)
        \/ Transcribe(t)
        \/ Analyse(t)
        \/ Final(t)

SpecChat == Init(OneKey, InitialUploads) /\ [][NextChat]_vars

(* The rotator's operations step by step, for the callers the program has: *)
(* the monitor threads (available, next_key, status), the handler thread    *)
(* (available) and the reset timer (reset_exhausted).  A caller of a        *)
(* locked operation waits at "with self._lock" until the lock is free.      *)
LockedOps == {"next_key", "status", "reset_exhausted"}
RotOps(c) ==
    IF c = "reset_timer" THEN {"reset_exhausted"}
    ELSE IF c = "handler" THEN {"available"}
    ELSE {"available", "next_key", "status"}
\* A caller's position: the operation it is in and whether it is past the
\* operation's "with self._lock"
Position(op, locked) == [op |-> op, locked |-> locked]
Idle == Position("idle", FALSE)

RotCall(c, op) ==
    /\ rot_pc[c] = Idle
    /\ rot_pc' = [rot_pc EXCEPT ![c] = Position(op, FALSE)]
    /\ UNCHANGED <<rotator, lock, latest, api, trade, environment, chat, threads>>

\* with self._lock: entered
RotAcquire(c) ==
    /\ rot_pc[c].op \in LockedOps
    /\ ~rot_pc[c].locked
    /\ lock = "free"
    /\ lock' = c
    /\ rot_pc' = [rot_pc EXCEPT ![c] = Position(rot_pc[c].op, TRUE)]
    /\ UNCHANGED <<rotator, latest, api, trade, environment, chat, threads>>

\* available: the property reads _keys and _exhausted and returns
RotAvailable(c) ==
    /\ rot_pc[c].op = "available"
    /\ rot_pc' = [rot_pc EXCEPT ![c] = Idle]
    /\ UNCHANGED <<rotator, lock, latest, api, trade, environment, chat, threads>>

\* The body of a locked operation and the release of the lock
RotLocked(c) ==
    /\ rot_pc[c].op \in LockedOps
    /\ rot_pc[c].locked
    /\ lock = c
    /\ rot_index' = IF rot_pc[c].op = "next_key"
                    THEN NextKey(keys, rot_index, exhausted).index ELSE rot_index
    /\ exhausted' = IF rot_pc[c].op = "reset_exhausted"
                    THEN ResetExhausted(exhausted) ELSE exhausted
    /\ lock' = "free"
    /\ rot_pc' = [rot_pc EXCEPT ![c] = Idle]
    /\ UNCHANGED <<keys, latest, api, trade, environment, chat, threads>>

NextRotator ==
    \E c \in Callers :
        \/ \E op \in RotOps(c) : RotCall(c, op)
        \/ RotAcquire(c)
        \/ RotAvailable(c)
        \/ RotLocked(c)

SpecRotator == Init(TwoKeys, InitialUploads) /\ [][NextRotator]_vars

(* get_latest_video called on its own, for every channel of ResolverInputs *)
CallGetLatestVideo ==
    /\ latest = None
    /\ \E r \in GetLatestVideo(keys, rot_index, exhausted, quota403, uploads) :
        /\ latest' = Some([vid |-> r.vid, listed |-> r.listed, durs |-> r.durs])
        /\ rot_index' = r.index
        /\ exhausted' = r.exhausted
    /\ UNCHANGED <<keys, lock, rot_pc, api, trade, environment, chat, threads>>

NextResolver == CallGetLatestVideo

SpecResolver == (\E ups \in ResolverInputs : Init(OneKey, ups)) /\ [][NextResolver]_vars

(* format_results called on its own.  The transcript is given by the count *)
(* of each category's pattern in it; prices are in hundredths.             *)
TradeMarkets == {"mrbeast", "souravjoshi"}
\* MARKET_CONFIGS, with two of mrbeast's word groups; "Avantika" stands for
\* the Devanagari word group of souravjoshi
SouravJoshiLive ==
    [slug |-> Some("slug"), testing |-> FALSE, word_groups |-> {"Avantika"},
     thresholds |-> <<>>, default_threshold |-> 1, match_market |-> "mrbeast"]
SouravJoshi ==
    [slug |-> None, testing |-> TRUE, word_groups |-> {"Avantika"},
     thresholds |-> <<>>, default_threshold |-> 1, match_market |-> "souravjoshi"]
MarketConfigs(mk, slug1) ==
    IF mk = "mrbeast"
    THEN [slug |-> Some(slug1), testing |-> FALSE, word_groups |-> {"Dollar", "Challenge"},
          thresholds |-> [c \in {"Dollar"} |-> 10], default_threshold |-> 1,
          match_market |-> "mrbeast"]
    ELSE SouravJoshi
\* POLYMARKET_SLUG, stripped
Slugs == {"", "slug"}
\* PRIVATE_KEY
PrivateKeys == {None, Some(""), Some("0xkey")}
\* thresholds = {cat: thresh_map.get(cat, default_th) for cat in word_groups}
Threshold(config, cat) ==
    IF cat \in DOMAIN config.thresholds THEN config.thresholds[cat]
    ELSE config.default_threshold
\* The counts a transcript can give: none, one below the threshold, the threshold
CountsOf(config) ==
    [config.word_groups -> {0} \cup UNION {{Threshold(config, c) - 1, Threshold(config, c)}
                                            : c \in config.word_groups}]
\* One matched market of the event: the Yes price when the market lists its
\* prices, and the token ids of its two outcomes when it names them
Prices == {5, 94, 95}
Quotes ==
    [price : {None} \cup {Some(p) : p \in Prices},
     yes : {None, Some("yes_token")}, no : {None, Some("no_token")}]
\* MARKET_MATCHERS: the categories a question of the event can be matched to;
\* match_market_souravjoshi returns None for every question
Matched(config) == IF config.match_market = "souravjoshi" THEN {} ELSE config.word_groups
\* What the event's markets hold for each category: None for a category no
\* market was matched to
PolymarketAnswers(config) ==
    {None} \cup {Some(q) : q \in {f \in [config.word_groups -> {None} \cup {Some(x) : x \in Quotes}] :
                                    \A c \in config.word_groups \ Matched(config) : f[c] = None}}
\* get_polymarket_data: no request without a slug; None for a failed request
\* or an event without markets
GetPolymarketData(slug, answer) ==
    IF slug = None \/ slug = Some("") THEN [queried |-> FALSE, data |-> None]
    ELSE [queried |-> TRUE, data |-> answer]

\* if count >= thresh: side "Yes" else side "No"
ChosenSideYes(count, thresh) == "Yes"
ChosenSide(count, thresh) == IF count >= thresh THEN "Yes" ELSE "No"

\* The tradeable rows: categories with a Yes price whose chosen side costs
\* less than 0.95 and has a token id
Tradeable(config, counts, data) ==
    IF data = None THEN {}
    ELSE {row \in [cat : config.word_groups, side : {"Yes", "No"},
                   token : {"yes_token", "no_token"}, price : 0..100] :
             LET q == data[1][row.cat]
             IN /\ q # None /\ q[1].price # None
                /\ row.side = ChosenSide(counts[row.cat], Threshold(config, row.cat))
                /\ row.price = IF row.side = "Yes" THEN q[1].price[1] ELSE 100 - q[1].price[1]
                /\ row.price < CertainPrice
                /\ Some(row.token) = IF row.side = "Yes" THEN q[1].yes ELSE q[1].no}

\* format_results: what it does besides building its text.  posted is the set
\* of categories for which the client was set up and the order was signed, so
\* that post_order is reached
FormatResults(config, counts, auto_trade, private_key, answer, posted) ==
    IF config.testing THEN [queried |-> FALSE, orders |-> {}]
    ELSE LET pm == GetPolymarketData(config.slug, answer)
             opportunities == Tradeable(config, counts, pm.data)
         IN [queried |-> pm.queried,
             orders |-> IF auto_trade /\ private_key \notin {None, Some("")}
                        THEN {o \in opportunities : o.cat \in posted}
                        ELSE {}]

CallFormatResults ==
    /\ trade = None
    /\ \E mk \in TradeMarkets, slug1 \in Slugs, auto_trade \in BOOLEAN, private_key \in PrivateKeys :
        LET config == MarketConfigs(mk, slug1)
        IN \E counts \in CountsOf(config), answer \in PolymarketAnswers(config),
              posted \in SUBSET config.word_groups :
               trade' = Some([market |-> mk, config |-> config, counts |-> counts,
                              auto_trade |-> auto_trade, private_key |-> private_key,
                              answer |-> answer,
                              did |-> FormatResults(config, counts, auto_trade, private_key,
                                                    answer, posted)])
    /\ UNCHANGED <<rotator, lock, rot_pc, latest, api, environment, chat, threads>>

NextTrade == CallFormatResults

SpecTrade == Init(OneKey, InitialUploads) /\ [][NextTrade]_vars

(* The rotator's methods called on their own, one after another in any     *)
(* order, for every value of YOUTUBE_API_KEY in KeyEnvs.  Each of the three *)
(* runs under self._lock from its first statement to its last, so calls    *)
(* from several threads happen one at a time.                              *)
Call(op, key) == [op |-> op, key |-> key, index |-> rot_index, exhausted |-> exhausted]
LastN(s, n) == IF Len(s) <= n THEN s ELSE SubSeq(s, Len(s) - n + 1, Len(s))

KeysNextKey ==
    /\ calls < MaxCalls
    /\ LET r == NextKey(keys, rot_index, exhausted)
       IN /\ rot_index' = r.index
          /\ returned' = Some(Call("next_key", r.key))
          /\ handed' = IF exhausted = {} /\ r.key # None
                       THEN LastN(Append(handed, r.key[1]), Len(keys))
                       ELSE <<>>
    /\ calls' = calls + 1
    /\ UNCHANGED <<keys, exhausted, marked, lock, rot_pc, latest, trade, environment, chat, threads>>

KeysMarkExhausted(k) ==
    /\ calls < MaxCalls
    /\ exhausted' = MarkExhausted(keys, k, exhausted)
    /\ returned' = Some(Call("mark_exhausted", Some(k)))
    /\ handed' = <<>>
    /\ marked' = marked \cup {k}
    /\ calls' = calls + 1
    /\ UNCHANGED <<keys, rot_index, lock, rot_pc, latest, trade, environment, chat, threads>>

KeysResetExhausted ==
    /\ calls < MaxCalls
    /\ exhausted' = ResetExhausted(exhausted)
    /\ returned' = Some(Call("reset_exhausted", None))
    /\ marked' = {}
    /\ calls' = calls + 1
    /\ UNCHANGED <<keys, rot_index, handed, lock, rot_pc, latest, trade, environment, chat, threads>>

NextKeys ==
    \/ KeysNextKey
    \/ \E k \in KeyNames : KeysMarkExhausted(k)
    \/ KeysResetExhausted

SpecKeys == (\E env \in KeyEnvs : Init(ParseKeys(env), InitialUploads)) /\ [][NextKeys]_vars

-----------------------------------------------------------------------------
(* Claims *)

AllOverQuota == quota403 = {keys[i] : i \in 1..Len(keys)}
NotReadyStep(t) == pc[t] = "transcribe" /\ Has(out'[t], "msg_not_ready")

\* C1 (as stated): when the transcript of the newly confirmed video is not
\* available, the session emits the "not ready" notice and ends (Done).
C1_NotReadyEndsSession ==
    [][\A t \in Threads : NotReadyStep(t) => pc'[t] \in {"final", "exited"}]_vars

\* C1 (amended): when the transcript is not available and the "not ready"
\* notice is delivered, the session does not end: it goes back to waiting with
\* the baseline video identifier reset to None and the baseline count reset to
\* new_count - diff, below the count just fetched, the stop event untouched.
C1_NotReadyKeepsWatching ==
    [][\A t \in Threads : NotReadyStep(t) =>
          /\ pc'[t] = "sleep"
          /\ stop_event'[t] = stop_event[t]
          /\ mode' = mode
          /\ last_vid_id'[t] = None
          /\ last_count'[t] = Some(new_count[t][1] - diff[t][1])
          /\ last_count'[t][1] < new_count[t][1]]_vars

C1_Witness ==
    \E t \in Threads :
        pc[t] = "sleep" /\ Has(out[t], "msg_not_ready") /\ last_vid_id[t] = None

\* C2 (as stated): the baseline upload count of a session never decreases.
C2_CountNeverDecreases ==
    [][\A t \in Threads : (last_count[t] # None /\ last_count'[t] # None) =>
          last_count'[t][1] >= last_count[t][1]]_vars

\* C2 (amended): the baseline upload count of a session never decreases,
\* except in the transcript-not-ready branch, which sets it to new_count - diff.
C2_CountDecreasesOnlyOnNotReady ==
    [][\A t \in Threads : (last_count[t] # None /\ last_count'[t] # None) =>
          \/ last_count'[t][1] >= last_count[t][1]
          \/ /\ NotReadyStep(t)
             /\ last_count'[t][1] = new_count[t][1] - diff[t][1]]_vars

C2_Witness ==
    \E t \in Threads :
        /\ pc[t] = "sleep" /\ Has(out[t], "msg_not_ready")
        /\ last_count[t] = Some(1) /\ Len(uploads) = 2

\* C3: when the count increased and the resolver returns the baseline video
\* identifier, the poll ends there: the session goes back to waiting with the
\* baseline video identifier unchanged, without transcript fetch or analysis.
C3_SameVideoSuppressed ==
    [][\A t \in Threads :
          (pc[t] = "resolve" /\ vid_id'[t] # None /\ vid_id'[t] = last_vid_id[t]) =>
              /\ pc'[t] = "sleep"
              /\ last_vid_id'[t] = last_vid_id[t]
              /\ mode' = mode]_vars

C3_Witness ==
    \E t \in Threads :
        /\ pc[t] = "sleep" /\ Has(out[t], "msg_same_video")
        /\ vid_id[t] # None /\ vid_id[t] = last_vid_id[t]

\* C4: once the stop event of a session is set, a poll iteration suspended in
\* the count fetch, the video-list fetch or the transcript fetch does not go on
\* to the transcript fetch or the analysis.
C4_CancelStopsInFlightWork ==
    [][\A t \in Threads :
          (stop_event[t] /\ pc[t] \in {"poll_fetch", "resolve", "transcribe"}) =>
              pc'[t] \notin ({"transcribe", "analyse"} \ {pc[t]})]_vars

\* C5: after /stop has been handled, every session of the chat that is still
\* running has its stop event set.
C5_StopReachesRunningSession ==
    reply \in {"stopped", "no_active_monitor"} =>
        \A t \in Threads : Running(t) => stop_event[t]

\* C6: at most one monitor thread of the chat executes monitor_channel.
C6_AtMostOneMonitorThread ==
    Cardinality({t \in Threads : Running(t)}) <= 1

\* C7: a poll whose count fetch fails goes back to waiting with the baseline
\* count and the baseline video identifier unchanged, and takes neither the
\* "no new video" branch nor the detection branch.
C7_FailedFetchKeepsBaseline ==
    [][\A t \in Threads :
          (pc[t] = "poll_fetch" /\ pc'[t] # "poll_fetch" /\ ~Has(out'[t], "log_count")) =>
              /\ pc'[t] = "sleep"
              /\ last_count'[t] = last_count[t]
              /\ last_vid_id'[t] = last_vid_id[t]
              /\ ~Has(out'[t], "log_no_new_video")
              /\ ~Has(out'[t], "log_count_jumped")]_vars

C7_Witness ==
    \E t \in Threads :
        /\ pc[t] = "sleep" /\ Has(out[t], "msg_count_failed")
        /\ poll_count[t] >= 3 /\ last_count[t] # None /\ last_vid_id[t] # None

UnchangedPoll(t) ==
    pc[t] = "poll_fetch" /\ Has(out'[t], "log_count") /\ last_count[t] = Some(Len(uploads))

\* C8 (as stated): a poll whose fetched count equals the baseline count sends
\* no message.
C8_UnchangedPollIsSilent ==
    [][\A t \in Threads : UnchangedPoll(t) => Messages(out'[t]) = {}]_vars

\* C8 (amended): a poll whose fetched count equals the baseline count sends no
\* message unless its poll number is a multiple of 10; on such a poll it sends
\* the heartbeat or, if that fails, at most the poll's error notice.
C8_UnchangedPollSilentButHeartbeat ==
    [][\A t \in Threads : UnchangedPoll(t) =>
          /\ pc'[t] = "sleep"
          /\ IF poll_count[t] % 10 = 0
             THEN Messages(out'[t]) \in {{"msg_heartbeat"}, {"msg_poll_error"}, {}}
             ELSE Messages(out'[t]) = {}]_vars

C8_Witness ==
    \E t \in Threads :
        /\ pc[t] = "sleep" /\ poll_count[t] = 10
        /\ Has(out[t], "msg_heartbeat") /\ Has(out[t], "log_no_new_video")

\* C9: while every key of the pool is over quota, one alert is sent for the
\* exhaustion: a session that has delivered it sends no further one.
C9_OneAlertPerExhaustion ==
    [][\A t \in Threads :
          (pc[t] = "poll_fetch" /\ alerted[t] /\ AllOverQuota) =>
              ~Has(out'[t], "msg_count_failed")]_vars

\* C10: a count fetch whose next key is answered 403, while another key is
\* neither over quota nor marked, leaves the failing key marked exhausted.
C10_MarksAndRotatesOn403 ==
    [][\A t \in Threads :
          ( /\ pc[t] \in {"seed_count", "poll_fetch"} /\ pc'[t] # pc[t]
            /\ rot_index \notin exhausted
            /\ keys[rot_index + 1] \in quota403
            /\ \E j \in 1..Len(keys) : keys[j] \notin quota403 /\ (j - 1) \notin exhausted )
          => rot_index \in exhausted']_vars

\* C11: a caller that reads or writes the rotator's shared state (inside
\* next_key, mark_exhausted, reset_exhausted, status or available) holds the
\* rotator's lock.
C11_SharedStateUnderLock ==
    \A c \in Callers :
        (rot_pc[c].op = "available" \/ rot_pc[c].locked) => lock = c

Unpopulated(u) == u.dur = None \/ (u.dur # None /\ ~u.dur[1].t)
\* The seconds a duration string stands for
DurationSeconds(d) == OptInt(d.days) * 86400 + OptInt(d.h) * 3600 + OptInt(d.m) * 60 + OptInt(d.s)
\* Candidate i of the answered call was classified: no earlier one was returned
Classified(i) == \A j \in 1..(i - 1) : latest[1].vid # Some(uploads[j].id)

\* C12: a candidate whose duration is not yet populated (its identifier is
\* absent from the videos.list answer, or its duration has no time component)
\* is not classified Short: when the resolver reaches it, it returns it.
C12_UnpopulatedNeverShort ==
    (latest # None /\ latest[1].listed) =>
        \A i \in 1..Len(uploads) :
            (Classified(i) /\ Unpopulated(uploads[i])) => latest[1].vid = Some(uploads[i].id)

\* C13: a candidate whose reported duration stands for d seconds is classified
\* Short when d <= 60 and Long when d > 60: when the resolver reaches it with
\* the durations answered, it returns it exactly when d > 60.
C13_ShortIffAtMostSixty ==
    (latest # None /\ latest[1].listed /\ latest[1].durs # NoDurations) =>
        \A i \in 1..Len(uploads) :
            (Classified(i) /\ uploads[i].dur # None) =>
                (latest[1].vid = Some(uploads[i].id) <=> DurationSeconds(uploads[i].dur[1]) > 60)

\* C14: with the uploads fetched, get_latest_video returns the first candidate
\* in the fetched order that it classifies Long (not Short), and None exactly
\* when it classifies every fetched candidate Short.
C14_FirstLongCandidate ==
    (latest # None /\ latest[1].listed) =>
        LET long == {i \in 1..Len(uploads) : ~IsShort(SecsOf(uploads[i].id, latest[1].durs))}
        IN /\ latest[1].vid = None <=> long = {}
           /\ latest[1].vid # None =>
                  \E i \in long : /\ latest[1].vid = Some(uploads[i].id)
                                  /\ \A j \in long : i <= j

C14_Witness ==
    /\ latest # None /\ latest[1].listed /\ Len(uploads) = 3
    /\ latest[1].vid = Some(uploads[2].id)
    /\ uploads[1].dur = Some(PT30S) /\ uploads[2].dur = Some(PT1M1S) /\ uploads[3].dur = Some(PT1M1S)

NewVideoStep(t) ==
    pc[t] = "resolve" /\ vid_id'[t] # None /\ vid_id'[t] # last_vid_id[t]

C18_FailedTranscriptEndsSession ==
    [][\A t \in Threads :
          (pc[t] = "transcribe" /\ Has(out'[t], "log_transcript_error")) =>
              /\ ~Has(out'[t], "msg_not_ready")
              /\ pc'[t] \in {"final", "exited"}]_vars

\* C19: a session ends only after its stop event was set by a cancellation or
\* after the result of a detected video was delivered; no failure ends it.
C19_OnlyCancelOrSuccessEnds ==
    [][\A t \in Threads :
          (Running(t) /\ pc[t] # "final" /\ pc'[t] \in {"final", "exited"}) =>
              \/ pc[t] = "sleep" /\ stop_event[t]
              \/ pc[t] = "analyse" /\ Has(out'[t], "msg_result")]_vars

\* C20: a successful count fetch made with no upload since the session's
\* previous successful count fetch (since the session's start, for the first
\* one) raises no detection, whatever seeding gave; both fetches of a pair
\* that returns one value with no upload in between are of this kind when no
\* upload precedes the pair either.
C20_NoDetectionWithoutUpload ==
    [][\A t \in Threads :
          (pc[t] = "poll_fetch" /\ Has(out'[t], "log_count") /\ no_upload[t]) =>
              ~Has(out'[t], "log_count_jumped")]_vars

\* The poll of slot t that gets a count after the notice n was delivered
RetryPoll(t, n) ==
    /\ pc[t] = "poll_fetch" /\ Has(out'[t], "log_count")
    /\ retry[t] # None /\ retry[t][1].notice = n

\* The resolver call of such a poll
RetryResolve(t, n) ==
    pc[t] = "resolve" /\ retry[t] # None /\ retry[t][1].notice = n

C22_DetailsFailureIsRetried ==
    [][\A t \in Threads :
          (RetryPoll(t, "msg_fetch_details_failed") /\ no_upload[t]) =>
              ~Has(out'[t], "log_no_new_video")]_vars

\* The step is a call of the rotator method op made on its own
RotatorCall(op) == calls' = calls + 1 /\ returned'[1].op = op
Indices == 0..(Len(keys) - 1)

\* C23: next_key never returns a key from an index of the exhausted set (the
\* key it returns stands at an index outside the set, and the rotation index
\* is left right after it), and it returns None exactly when the key list is
\* empty or every index is exhausted, in every state the three methods reach.
C23_NextKeySkipsExhausted ==
    [][RotatorCall("next_key") =>
        LET key == returned'[1].key
        IN /\ key = None <=> (Len(keys) = 0 \/ \A i \in Indices : i \in exhausted)
           /\ key # None =>
                  \E j \in Indices \ exhausted :
                      keys[j + 1] = key[1] /\ rot_index' = (j + 1) % Len(keys)]_vars

\* next_key found its index exhausted, skipped it and returned a key
C23_Witness ==
    /\ returned # None /\ returned[1].op = "next_key" /\ returned[1].key # None
    /\ returned[1].index \in returned[1].exhausted

\* The first index from i on, in cyclic order, that is not exhausted
FirstEligible(i, exh) ==
    CHOOSE j \in Indices \ exh :
        \A d \in 0..(((j - i + Len(keys)) % Len(keys)) - 1) : ((i + d) % Len(keys)) \in exh
\* s is the key list read once around from one of its positions
IsRound(s) ==
    \E first \in Indices : \A i \in 1..Len(keys) : s[i] = keys[((first + i - 1) % Len(keys)) + 1]

\* C24: every next_key call that returns a key returns the first non-exhausted
\* entry from the rotation index on, in cyclic configured order, and moves the
\* rotation index right after it; no other method moves the index; and with no
\* key exhausted, k consecutive calls return the k configured entries once
\* each, in cyclic order.
C24_RoundRobin ==
    [][/\ (RotatorCall("next_key") /\ returned'[1].key # None) =>
            LET j == FirstEligible(rot_index, exhausted)
            IN /\ returned'[1].key = Some(keys[j + 1])
               /\ rot_index' = (j + 1) % Len(keys)
               /\ (exhausted = {} /\ Len(handed') = Len(keys)) => IsRound(handed')
       /\ (RotatorCall("mark_exhausted") \/ RotatorCall("reset_exhausted")) =>
            rot_index' = rot_index]_vars

\* three keys, none exhausted: a full round handed out starting at the second
C24_Witness ==
    /\ Len(keys) = 3 /\ keys[1] # keys[2] /\ keys[2] # keys[3] /\ keys[1] # keys[3]
    /\ exhausted = {} /\ handed = <<keys[2], keys[3], keys[1]>>

\* C25: a key string passed to mark_exhausted is not returned by next_key until
\* reset_exhausted is called, whatever the configured key list.
C25_MarkedKeyNotReturned ==
    [][(RotatorCall("next_key") /\ returned'[1].key # None) =>
        returned'[1].key[1] \notin marked]_vars

\* C26: reset_exhausted empties the exhausted set, so that with a non-empty
\* key list available is true and next_key returns a key; it leaves the
\* rotation index and the key list as they were, and touches neither the
\* chat's state nor any monitor thread.
C26_ResetMakesEveryKeyEligible ==
    [][RotatorCall("reset_exhausted") =>
        /\ exhausted' = {}
        /\ rot_index' = rot_index /\ keys' = keys
        /\ Len(keys) > 0 =>
               /\ Available(keys', exhausted')
               /\ NextKey(keys', rot_index', exhausted').key # None
        /\ UNCHANGED <<chat, threads>>]_vars

\* a reset that found every key exhausted, away from the first index
C26_Witness ==
    /\ returned # None /\ returned[1].op = "reset_exhausted"
    /\ Len(keys) = 2 /\ returned[1].exhausted = {0, 1} /\ exhausted = {}
    /\ rot_index = 1

\* C27: a poll that gets a count lower than the baseline count raises no
\* detection, calls no resolver and leaves the baseline count and the
\* baseline video identifier unchanged.
C27_LowerCountIsUnchanged ==
    [][\A t \in Threads :
          ( /\ pc[t] = "poll_fetch" /\ Has(out'[t], "log_count")
            /\ last_count[t] # None /\ Len(uploads) < last_count[t][1] ) =>
              /\ pc'[t] = "sleep"
              /\ ~Has(out'[t], "log_count_jumped")
              /\ last_count'[t] = last_count[t]
              /\ last_vid_id'[t] = last_vid_id[t]]_vars

C27_Witness ==
    \E t \in Threads :
        /\ pc[t] = "sleep" /\ Has(out[t], "log_no_new_video")
        /\ last_count[t] = Some(2) /\ Len(uploads) = 1 /\ last_vid_id[t] # None

\* C28: a session that finds its stop event set when its wait between polls
\* ends leaves the loop: its next step is the exit path, with no count fetch,
\* resolver call or transcript fetch, and the exit path only leads to the exit.
C28_StopWhileSleepingExits ==
    [][\A t \in Threads :
          /\ (pc[t] = "sleep" /\ stop_event[t]) => pc'[t] \in {"sleep", "final"}
          /\ (pc[t] = "final" /\ Has(out[t], "log_stop_received")) =>
                 pc'[t] \in {"final", "exited"}]_vars

C28_Witness ==
    \E t \in Threads :
        /\ pc[t] = "final" /\ stop_event[t] /\ Has(out[t], "log_stop_received")
        /\ poll_count[t] = 1 /\ reply = "stopped"

\* C29: when start_monitoring starts a thread, every thread of the chat that
\* is still running has its stop event set.
C29_StartStopsEarlierThreads ==
    [][\A t \in Threads :
          (~Running(t) /\ pc'[t] = "start") =>
              \A u \in Threads \ {t} : Running(u) => stop_event'[u]]_vars

\* C30: a session stopped through /stop, whose thread left the loop on finding
\* its stop event set, sends the "Monitoring stopped" message on exit (or
\* fails in sending it), whatever the handler has done by then.
C30_ManualStopAnnounced ==
    [][\A t \in Threads :
          ( /\ pc[t] = "final" /\ pc'[t] = "exited" /\ Has(out[t], "log_stop_received")
            /\ stop_pc = "idle" /\ reply = "stopped" ) =>
              out'[t] # <<"log_exited">>]_vars


\* C31: the heartbeat message, whose text reports the count as "(no change)",
\* is sent only in a poll whose fetched count equals the baseline count; a poll
\* that detects an increase sends none.
C31_HeartbeatOnlyWhenUnchanged ==
    [][\A t \in Threads :
          (pc[t] = "poll_fetch" /\ Has(out'[t], "msg_heartbeat")) =>
              /\ last_count[t] = Some(Len(uploads))
              /\ ~Has(out'[t], "log_count_jumped")]_vars


\* The steps of one poll iteration
PollStages == {"poll_fetch", "resolve", "transcribe", "analyse"}

\* C32: an exception raised at a step of a poll iteration (count fetch,
\* notification, resolver, transcript fetch, analysis) is caught inside the
\* iteration: the step ends the iteration or moves on within it, the thread
\* ends the loop only after the auto-stop, and a session that is waiting and
\* not cancelled goes on to its next poll.
C32_PollExceptionCaught ==
    [][\A t \in Threads :
          /\ (pc[t] \in PollStages /\ pc'[t] # pc[t]) =>
                 \/ pc'[t] \in PollStages \cup {"sleep"}
                 \/ pc'[t] = "final" /\ Has(out'[t], "msg_auto_stopped")
          /\ (pc[t] \in PollStages /\ pc'[t] # pc[t] /\ Has(out'[t], "msg_poll_error")) =>
                 pc'[t] = "sleep"
          /\ (pc[t] = "sleep" /\ ~stop_event[t] /\ pc'[t] # pc[t]) =>
                 pc'[t] = "poll_fetch"]_vars

\* the analysis or the sending of its result raised, the error notice was
\* delivered, and the session is waiting for its next poll
C32_Witness ==
    \E t \in Threads :
        /\ pc[t] = "sleep" /\ out[t] = <<"msg_poll_error">>
        /\ ~stop_event[t] /\ poll_count[t] = 1


\* The markets MARKET_CONFIGS marks as testing
TestingMarkets == {"souravjoshi"}

C34_OrderOnlyWhenTradeable ==
    trade # None =>
        \A o \in trade[1].did.orders :
            LET t == trade[1]
                reached == t.counts[o.cat] >= Threshold(t.config, o.cat)
            IN /\ t.auto_trade /\ t.private_key \notin {None, Some("")}
               /\ t.answer # None /\ t.answer[1][o.cat] # None
               /\ t.answer[1][o.cat][1].price # None
               /\ o.side = "Yes" <=> reached
               /\ LET q == t.answer[1][o.cat][1]
                  IN IF reached
                     THEN q.yes = Some(o.token) /\ q.price[1] < 95
                     ELSE q.no = Some(o.token) /\ 100 - q.price[1] < 95

\* an order for the No side of a category below its threshold
C34_Witness ==
    /\ trade # None
    /\ \E o \in trade[1].did.orders :
           o.cat = "Dollar" /\ o.side = "No" /\ trade[1].counts["Dollar"] = 9 /\ o.price = 6


\* C35: a session fetches the transcript only of a video uploaded after its
\* seeding, also when a seeding call failed: the video the channel held before
\* any session was started is never passed on to the transcript fetch.
C35_SeededVideoNeverProcessed ==
    [][\A t \in Threads :
          (pc[t] = "resolve" /\ pc'[t] = "transcribe") =>
              vid_id'[t] # Some(InitialUploads[1].id)]_vars


\* C36: whenever the chat's mode is "monitoring", a monitor thread of the chat
\* is alive and its stop event is not set; the mode does not stay "monitoring"
\* once the thread has returned.  (States inside the /stop handler, between
\* its two assignments, are left out.)
C36_MonitoringModeHasLiveThread ==
    (mode = "monitoring" /\ stop_pc = "idle") =>
        \E t \in Threads : Running(t) /\ ~stop_event[t]


\* The channel's newest upload is a long-form video that was uploaded while the
\* session of slot t was running, after its latest count fetch
UploadedDuringSession(t) ==
    /\ Running(t) /\ ~no_upload[t] /\ Len(uploads) > 0
    /\ uploads[1].id = next_id - 1
    /\ uploads[1].dur # None /\ ~IsShort(ParseIso8601Duration(uploads[1].dur[1]))

\* C37: a long-form video uploaded while a session is running and not cancelled
\* is not missed: a poll that counts it does not leave the session waiting with
\* the count taken as baseline and the video not recorded, the state from which
\* no later poll detects the video; a failed notification right after the count
\* increase included.
C37_UploadNotMissed ==
    [][\A t \in Threads :
          (/\ pc[t] = "poll_fetch" /\ ~stop_event[t] /\ UploadedDuringSession(t)
           /\ last_count[t] = Some(Len(uploads) - 1)
           /\ Has(out'[t], "log_count")) =>
              ~(/\ pc'[t] = "sleep"
                /\ last_count'[t] = Some(Len(uploads))
                /\ last_vid_id'[t] # Some(uploads[1].id))]_vars


\* C38: within one session format_results is invoked at most once, also when
\* the analysis or the sending of its result raised.
C38_AnalysedAtMostOnce ==
    [][\A t \in Threads :
          (pc[t] = "analyse" /\ pc'[t] # "analyse") => ~analysed[t]]_vars

====
